---------------------------- MODULE Spec2Model ----------------------------
(***************************************************************************)
(* Movie wishlist backend (movie-download-wishlist-webapp/lambda/src).     *)
(*                                                                         *)
(* The Movies and Interests tables are the only shared state.  Every       *)
(* Lambda invocation is a process that runs its handler; each call the     *)
(* handler makes to the store is one atomic step, so handlers of different *)
(* invocations interleave between their store calls.  A store call either  *)
(* takes effect or raises (ClientError with an error code, or another      *)
(* exception) without effect.  Index queries are read as consistent, as    *)
(* in the repository's tests.                                              *)
(***************************************************************************)
EXTENDS Integers, Sequences, FiniteSets, TLC

(***************************************************************************)
(* Bounds of the model.                                                    *)
(***************************************************************************)
MaxTime == 1
MaxCalls == 3

Procs == {1, 2}
Users == {"u1", "u2"}
MovieIds == {"m1", "m2"}
IdOrder == <<"m1", "m2">>
Missing == "MISSING"

VARIABLES movies, interests, now, usedIds, deleted, calls, pc, event, local, resp, fault

\* movies, interests: the two tables.  now: the clock.  usedIds: the
\* identifiers generated so far.  calls: the invocations started so far.
\* pc, event, local, resp: each invocation's position, event, local
\* variables and response.  History, for stating the properties: deleted (the
\* movies whose deletion was committed), fault (the outcome of an
\* invocation's latest store call), local[p].existed (whether the key
\* written or deleted by the latest store call was stored before it),
\* local[p].before (the movie as it was stored before the invocation's
\* update_item) and local[p].prev (the update of the same movie by the
\* invocation that returned just before this one started, if it was one).
vars == <<movies, interests, now, usedIds, deleted, calls, pc, event, local, resp, fault>>

(***************************************************************************)
(* Strings of the request are sequences of characters.                     *)
(***************************************************************************)
RECURSIVE lstrip(_), rstrip(_)
lstrip(s) == IF s # <<>> /\ Head(s) = " " THEN lstrip(Tail(s)) ELSE s
rstrip(s) == IF s # <<>> /\ s[Len(s)] = " " THEN rstrip(SubSeq(s, 1, Len(s) - 1)) ELSE s
strip(s) == rstrip(lstrip(s))

MaxTitleLen == 500

JsonNull == [t |-> "null"]
JsonNumber == [t |-> "number"]
JsonString(s) == [t |-> "string", s |-> s]

\* a JSON array, as the body of a listing
JsonArray(items) == [t |-> "array", items |-> items]

\* faulty variant: the limit is compared with >=
validate_movie_title_ge(title) ==
    IF title = JsonNull THEN <<FALSE, "Title is required">>
    ELSE IF title.t # "string" THEN <<FALSE, "Title must be a string">>
    ELSE IF strip(title.s) = <<>> THEN <<FALSE, "Title cannot be empty or whitespace only">>
    ELSE IF Len(strip(title.s)) >= MaxTitleLen THEN <<FALSE, "Title cannot exceed 500 characters">>
    ELSE <<TRUE, "">>

\* faulty variant: the length is not checked
validate_movie_title_no_limit(title) ==
    IF title = JsonNull THEN <<FALSE, "Title is required">>
    ELSE IF title.t # "string" THEN <<FALSE, "Title must be a string">>
    ELSE IF strip(title.s) = <<>> THEN <<FALSE, "Title cannot be empty or whitespace only">>
    ELSE <<TRUE, "">>

\* shared/validation.py: (is_valid, error_message)
validate_movie_title(title) ==
    IF title = JsonNull THEN <<FALSE, "Title is required">>
    ELSE IF title.t # "string" THEN <<FALSE, "Title must be a string">>
    ELSE IF strip(title.s) = <<>> THEN <<FALSE, "Title cannot be empty or whitespace only">>
    ELSE IF Len(strip(title.s)) > MaxTitleLen THEN <<FALSE, "Title cannot exceed 500 characters">>
    ELSE <<TRUE, "">>

valid_statuses == {"wishlist", "downloaded"}

\* faulty variant: every string is accepted
validate_movie_status_any_string(status) ==
    IF status = JsonNull THEN <<FALSE, "Status is required">>
    ELSE IF status.t # "string" THEN <<FALSE, "Status must be a string">>
    ELSE <<TRUE, "">>

validate_movie_status(status) ==
    IF status = JsonNull THEN <<FALSE, "Status is required">>
    ELSE IF status.t # "string" THEN <<FALSE, "Status must be a string">>
    ELSE IF status.s \notin valid_statuses THEN <<FALSE, "Status must be one of: wishlist, downloaded">>
    ELSE <<TRUE, "">>

(***************************************************************************)
(* shared/response.py                                                      *)
(***************************************************************************)
success_response(status_code, body) ==
    [statusCode |-> status_code, kind |-> "json", body |-> body]

error_response(status_code, message, error_type) ==
    [statusCode |-> status_code, kind |-> "error",
     body |-> [error |-> message, errorType |-> error_type]]

no_content_response ==
    [statusCode |-> 204, kind |-> "empty", body |-> [empty |-> TRUE]]

NoResp == [statusCode |-> 0, kind |-> "none", body |-> [empty |-> TRUE]]

(***************************************************************************)
(* shared/dynamodb_client.py                                               *)
(***************************************************************************)
handle_client_error(error_code) ==
    IF error_code = "ConditionalCheckFailedException"
        THEN <<409, "Resource conflict or condition not met">>
    ELSE IF error_code = "ResourceNotFoundException"
        THEN <<404, "Resource not found">>
    ELSE IF error_code = "ProvisionedThroughputExceededException"
        THEN <<503, "Service temporarily unavailable, please retry">>
    ELSE IF error_code = "ValidationException"
        THEN <<400, "Invalid request parameters">>
    ELSE IF error_code = "TransactionCanceledException"
        THEN <<500, "Transaction failed, please retry">>
    ELSE <<500, "Internal server error">>

DatabaseError(error_code) ==
    error_response(handle_client_error(error_code)[1],
                   handle_client_error(error_code)[2], "DatabaseError")

ServerError == error_response(500, "Internal server error", "ServerError")


(***************************************************************************)
(* The store (DynamoDB).  A table is a set of items; put_item replaces the *)
(* item that has the same primary key.                                     *)
(***************************************************************************)
get_item(table, movie_id) == {m \in table : m.movieId = movie_id}

put_movie_item(table, item) ==
    {m \in table : m.movieId # item.movieId} \cup {item}

\* faulty variant: the item is added beside the one with the same key
put_interest_item_append(table, item) == table \cup {item}

put_interest_item(table, item) ==
    {i \in table : ~(i.userId = item.userId /\ i.movieId = item.movieId)} \cup {item}

\* faulty variant: the key attributes are exchanged
delete_interest_item_swapped(table, user_id, movie_id) ==
    {i \in table : ~(i.userId = movie_id /\ i.movieId = user_id)}

\* faulty variant: the key is reduced to the movie
delete_interest_item_by_movie(table, user_id, movie_id) ==
    {i \in table : i.movieId # movie_id}

delete_interest_item(table, user_id, movie_id) ==
    {i \in table : ~(i.userId = user_id /\ i.movieId = movie_id)}

\* MovieInterestsIndex: the interests of one movie
query_movie_interests(table, movie_id) == {i \in table : i.movieId = movie_id}

\* faulty variant: the update also sets createdAt
updated_movie_recreated(m, new_status, updated_at) ==
    [m EXCEPT !.status = new_status, !.updatedAt = updated_at,
              !.createdAt = updated_at]

\* faulty variant: nothing is written when the status is the stored one
updated_movie_if_changed(m, new_status, updated_at) ==
    IF m.status = new_status THEN m
    ELSE [m EXCEPT !.status = new_status, !.updatedAt = updated_at]

\* faulty variant: the SET of #status is left out
updated_movie_time_only(m, new_status, updated_at) ==
    [m EXCEPT !.updatedAt = updated_at]

\* update_item SET #status, updatedAt with ReturnValues ALL_NEW
updated_movie(m, new_status, updated_at) ==
    [m EXCEPT !.status = new_status, !.updatedAt = updated_at]

InterestKey(i) == <<i.userId, i.movieId>>

\* transact_write_items: the conditional delete of the movie and the
\* deletes of the interests whose keys were queried, all applied together
transact_delete_movies(table, movie_id) ==
    {m \in table : m.movieId # movie_id}

\* faulty variant: the deletes of the interests are left out of the transaction
transact_delete_interests_none(table, found) == table

\* faulty variant: every interest of a queried movie is deleted, queried or not
transact_delete_interests_by_movie(table, found) ==
    {i \in table : i.movieId \notin {f.movieId : f \in found}}

\* faulty variant: the interests are selected by their user alone
transact_delete_interests_by_user(table, found) ==
    {i \in table : i.userId \notin {f.userId : f \in found}}

transact_delete_interests(table, found) ==
    {i \in table : InterestKey(i) \notin {InterestKey(f) : f \in found}}

(***************************************************************************)
(* What a store call can raise.  A ClientError carries an error code; for  *)
(* a cancelled transaction the response may carry the cancellation reasons *)
(* (only the first, the movie's, is read by the code) and a message.  Of    *)
(* the message the code reads only whether it holds ConditionalCheckFailed *)
(* (ccfInMessage); detail is the rest of what the exception carries: the   *)
(* text of the backend's message, the request id, the traceback.           *)
(***************************************************************************)
Details == {"An error occurred when calling the operation", "Connection was closed"}

BackendDetail == "An error occurred when calling the operation"

ClientError(c) ==
    [kind |-> "ClientError", code |-> c, reasons |-> <<>>, ccfInMessage |-> FALSE,
     detail |-> BackendDetail]

OtherException ==
    [kind |-> "Exception", code |-> "", reasons |-> <<>>, ccfInMessage |-> FALSE,
     detail |-> BackendDetail]

TransactionCanceled(rs, inMsg) ==
    [kind |-> "ClientError", code |-> "TransactionCanceledException",
     reasons |-> rs, ccfInMessage |-> inMsg, detail |-> BackendDetail]

\* the same failure with another detail
WithDetail(e, d) == [e EXCEPT !.detail = d]

FaultCodes == {"ProvisionedThroughputExceededException"}

\* failures of a call that do not depend on the data
Faults == {ClientError(c) : c \in FaultCodes} \cup {OtherException}

\* failures of the transaction that do not depend on the data
TransactionFaults ==
    Faults \cup {TransactionCanceled(<<"TransactionConflict">>, FALSE),
                 TransactionCanceled(<<>>, FALSE)}

\* how the failed attribute_exists(movieId) condition of the transaction
\* reaches the handler
ConditionFailures ==
    {TransactionCanceled(<<"ConditionalCheckFailed">>, TRUE),
     TransactionCanceled(<<>>, TRUE),
     ClientError("ConditionalCheckFailedException")}

NotFound == error_response(404, "Movie not found", "NotFoundError")

\* faulty variant: the text of an unexpected exception is put in the message
store_error_response_with_detail(e) ==
    IF e.kind = "ClientError" THEN DatabaseError(e.code)
    ELSE error_response(500, e.detail, "ServerError")

\* the except clause of a handler around a plain store call
store_error_response(e) ==
    IF e.kind = "ClientError" THEN DatabaseError(e.code) ELSE ServerError

\* faulty variant: a cancellation for another reason is answered through
\* handle_client_error
delete_error_response_unclassified(e) ==
    IF e.kind # "ClientError" THEN ServerError
    ELSE IF e.code = "TransactionCanceledException" THEN
        IF e.reasons = <<>> THEN
            IF e.ccfInMessage THEN NotFound ELSE DatabaseError(e.code)
        ELSE IF e.reasons[1] = "ConditionalCheckFailed" THEN NotFound
        ELSE DatabaseError(e.code)
    ELSE IF e.code = "ConditionalCheckFailedException" THEN NotFound
    ELSE DatabaseError(e.code)

\* faulty variant: a cancellation without reasons is never read as the
\* failed condition
delete_error_response_no_message(e) ==
    IF e.kind # "ClientError" THEN ServerError
    ELSE IF e.code = "TransactionCanceledException" THEN
        IF e.reasons # <<>> /\ e.reasons[1] = "ConditionalCheckFailed" THEN NotFound
        ELSE error_response(500, "Transaction failed", "TransactionError")
    ELSE IF e.code = "ConditionalCheckFailedException" THEN NotFound
    ELSE DatabaseError(e.code)

\* delete_movie.py: the except clause around transact_write_items
delete_error_response(e) ==
    IF e.kind # "ClientError" THEN ServerError
    ELSE IF e.code = "TransactionCanceledException" THEN
        IF e.reasons = <<>> THEN
            IF e.ccfInMessage THEN NotFound
            ELSE error_response(500, "Transaction failed", "TransactionError")
        ELSE IF e.reasons[1] = "ConditionalCheckFailed" THEN NotFound
        ELSE error_response(500, "Transaction failed", "TransactionError")
    ELSE IF e.code = "ConditionalCheckFailedException" THEN NotFound
    ELSE DatabaseError(e.code)

\* update_movie_status.py: the except clause around update_item
update_error_response(e) ==
    IF e.kind # "ClientError" THEN ServerError
    ELSE IF e.code = "ConditionalCheckFailedException" THEN NotFound
    ELSE DatabaseError(e.code)

(***************************************************************************)
(* Requests.                                                               *)
(***************************************************************************)
TitleInputs ==
    {JsonNull, JsonNumber, JsonString(<<" ", " ">>), JsonString(<<" ", "a", "b", " ">>)}

StatusInputs ==
    {JsonNull, JsonString("wishlist"), JsonString("downloaded"), JsonString("watched")}

\* Titles around the limits of validate_movie_title: n characters between l
\* leading and r trailing blanks, for n around 0 and around the maximum; a
\* blank inside.
Repeat(c, n) == [i \in 1..n |-> c]

Padded(l, n, r) == Repeat(" ", l) \o Repeat("a", n) \o Repeat(" ", r)

BoundaryTitles ==
    {JsonNull, JsonNumber}
    \cup {JsonString(Padded(l, n, r)) :
            l \in {0, 1}, r \in {0, 1},
            n \in {0, 1, MaxTitleLen - 1, MaxTitleLen, MaxTitleLen + 1}}
    \cup {JsonString(Padded(0, 1, 0) \o Padded(1, MaxTitleLen - 2, 0)),
          JsonString(Padded(0, 1, 0) \o Padded(1, MaxTitleLen - 1, 0))}

BadJson == [kind |-> "badjson"]
NotAnObject == [kind |-> "notobject"]
TitleBody(v) == [kind |-> "object", title |-> v]
StatusBody(v) == [kind |-> "object", status |-> v]
NoBody == [kind |-> "none"]

Event(op, movie_id, user_id, body) ==
    [op |-> op, movieId |-> movie_id, userId |-> user_id, body |-> body]

NoEvent == Event("none", Missing, Missing, NoBody)

\* The events of each operation: the well-formed ones, and one malformed
\* event for each way the handler rejects an event before any store call.
ValidTitle == JsonString(<<" ", "a", "b", " ">>)

CreateEvents ==
    {Event("createMovie", Missing, u, TitleBody(ValidTitle)) : u \in Users \cup {Missing}}
    \cup {Event("createMovie", Missing, "u1", b) :
            b \in {BadJson, NotAnObject} \cup {TitleBody(v) : v \in TitleInputs}}

UpdateEvents ==
    {Event("updateStatus", id, Missing, StatusBody(JsonString(st))) :
        id \in MovieIds \cup {Missing}, st \in valid_statuses}
    \cup {Event("updateStatus", "m1", Missing, b) :
            b \in {BadJson, NotAnObject} \cup {StatusBody(v) : v \in StatusInputs}}

AddEvents ==
    {Event("addInterest", id, u, NoBody) : id \in MovieIds, u \in Users \cup {Missing}}
    \cup {Event("addInterest", Missing, "u1", NoBody)}

RemoveEvents ==
    {Event("removeInterest", id, u, NoBody) : id \in MovieIds, u \in Users \cup {Missing}}
    \cup {Event("removeInterest", Missing, "u1", NoBody)}

DeleteEvents ==
    {Event("deleteMovie", id, Missing, NoBody) : id \in MovieIds \cup {Missing}}

ListMoviesEvents == {Event("listMovies", Missing, Missing, NoBody)}

ListUsersEvents ==
    {Event("listInterestedUsers", id, Missing, NoBody) : id \in MovieIds \cup {Missing}}

BoundaryEvents ==
    {Event("createMovie", Missing, "u1", TitleBody(v)) : v \in BoundaryTitles}

NoItem == [none |-> TRUE]
NoLocal ==
    [movie_item |-> NoItem, interests |-> {}, time |-> 0, existed |-> FALSE,
     before |-> NoItem, prev |-> NoItem,
     scanned |-> <<>>, enriched |-> <<>>, lookup_failed |-> FALSE,
     user_pool_id |-> FALSE]

MissingMovieId == error_response(400, "Missing movieId in path", "ValidationError")
Unauthorized == error_response(401, "Unauthorized - missing user context", "AuthError")
InvalidJson == error_response(400, "Invalid JSON in request body", "ValidationError")

Init ==
    /\ movies = {}
    /\ interests = {}
    /\ now = 0
    /\ usedIds = {}
    /\ deleted = {}
    /\ calls = 0
    /\ pc = [p \in Procs |-> "idle"]
    /\ event = [p \in Procs |-> NoEvent]
    /\ local = [p \in Procs |-> NoLocal]
    /\ resp = [p \in Procs |-> NoResp]
    /\ fault = [p \in Procs |-> "none"]

\* A state in which one movie is stored, in either status: the state after a
\* createMovie by u1 and, for the status downloaded, an updateStatus.
StoredMovie(st) ==
    [movieId |-> IdOrder[1], title |-> strip(ValidTitle.s), status |-> st,
     createdBy |-> "u1", createdAt |-> 0, updatedAt |-> 0]

InitStored ==
    /\ \E st \in valid_statuses : movies = {StoredMovie(st)}
    /\ interests = {[userId |-> "u1", movieId |-> IdOrder[1], createdAt |-> 0]}
    /\ now = 0
    /\ usedIds = {IdOrder[1]}
    /\ deleted = {}
    /\ calls = 0
    /\ pc = [p \in Procs |-> "idle"]
    /\ event = [p \in Procs |-> NoEvent]
    /\ local = [p \in Procs |-> NoLocal]
    /\ resp = [p \in Procs |-> NoResp]
    /\ fault = [p \in Procs |-> "none"]

\* int(time.time()): the clock is seen only when a handler reads it; now is
\* the latest value read so far, and a read at or after the moment the
\* value since was current returns a value from since on
time_time(since) == since .. MaxTime

Later(t) == IF t > now THEN t ELSE now

\* A new invocation takes the first slot that is not in flight (the slots
\* are interchangeable).
Free(p) == pc[p] \in {"idle", "done"}

CanStart(p) ==
    /\ Free(p)
    /\ \A q \in Procs : q < p => ~Free(q)
    /\ calls < MaxCalls

\* The process variables after a step of invocation p.  A returned
\* invocation stays visible (pc = "done", with its event and response)
\* until the next invocation returns or its slot is used again.
SetProc(p, pc_next, ev, loc, r, f) ==
    LET dropped(q) == q # p /\ pc_next = "done" /\ pc[q] = "done" IN
    /\ pc' = [q \in Procs |-> IF q = p THEN pc_next
                              ELSE IF dropped(q) THEN "idle" ELSE pc[q]]
    /\ event' = [q \in Procs |-> IF q = p THEN ev
                                 ELSE IF dropped(q) THEN NoEvent ELSE event[q]]
    /\ local' = [q \in Procs |-> IF q = p THEN loc
                                 ELSE IF dropped(q) THEN NoLocal ELSE local[q]]
    /\ resp' = [q \in Procs |-> IF q = p THEN r
                                ELSE IF dropped(q) THEN NoResp ELSE resp[q]]
    /\ fault' = [q \in Procs |-> IF q = p THEN f
                                 ELSE IF dropped(q) THEN "none" ELSE fault[q]]

\* the invocation p receives event ev and runs up to its first store call
Begin(p, ev, pc_next, loc) ==
    /\ calls' = calls + 1
    /\ SetProc(p, pc_next, ev, loc, NoResp, "none")

\* the invocation p receives event ev and returns r before any store call
Reject(p, ev, r) ==
    /\ calls' = calls + 1
    /\ SetProc(p, "done", ev, NoLocal, r, "none")

\* a store call succeeded and the handler goes on to its next store call
Goto(p, pc_next, loc) == SetProc(p, pc_next, event[p], loc, NoResp, "ok")

\* the handler returns r after a store call whose outcome was f: "ok",
\* "condition" (its condition expression failed) or "fault" (it raised)
Return(p, r, f) == SetProc(p, "done", event[p], local[p], r, f)

(***************************************************************************)
(* create_movie.py                                                         *)
(***************************************************************************)
\* faulty variant: an identifier generated before may be generated again
uuid4_repeating(used) == {IdOrder[i] : i \in 1..Len(IdOrder)}

\* uuid.uuid4(): an identifier never generated before.  The identifiers are
\* interchangeable, so the first unused one stands for any of them; there is
\* none once all of MovieIds have been generated.
uuid4(used) ==
    {IdOrder[i] : i \in {j \in 1..Len(IdOrder) :
                            /\ IdOrder[j] \notin used
                            /\ \A k \in 1..(j - 1) : IdOrder[k] \in used}}

\* faulty variant: the title is stored as received
new_movie_item_unstripped(movie_id, title, user_id, current_time) ==
    [movieId |-> movie_id, title |-> title.s, status |-> "wishlist",
     createdBy |-> user_id, createdAt |-> current_time, updatedAt |-> current_time]

new_movie_item(movie_id, title, user_id, current_time) ==
    [movieId |-> movie_id, title |-> strip(title.s), status |-> "wishlist",
     createdBy |-> user_id, createdAt |-> current_time, updatedAt |-> current_time]

\* faulty variant: the key attributes are exchanged
new_interest_item_swapped(user_id, movie_id, current_time) ==
    [userId |-> movie_id, movieId |-> user_id, createdAt |-> current_time]

new_interest_item(user_id, movie_id, current_time) ==
    [userId |-> user_id, movieId |-> movie_id, createdAt |-> current_time]

\* lines 34-70: parse, validate, identify the caller, build the item, for an
\* event of the set events
CreateMovie_Receive(p, events) ==
    /\ CanStart(p)
    /\ \E ev \in events :
        LET body == ev.body
            user == ev.userId
        IN
        IF body.kind = "badjson" THEN
            Reject(p, ev, InvalidJson) /\ UNCHANGED <<usedIds, now>>
        ELSE IF body.kind = "notobject" THEN
            Reject(p, ev, ServerError) /\ UNCHANGED <<usedIds, now>>
        ELSE IF ~validate_movie_title(body.title)[1] THEN
            Reject(p, ev, error_response(400, validate_movie_title(body.title)[2],
                                         "ValidationError"))
            /\ UNCHANGED <<usedIds, now>>
        ELSE IF user = Missing THEN
            Reject(p, ev, Unauthorized) /\ UNCHANGED <<usedIds, now>>
        ELSE
            \E id \in uuid4(usedIds), current_time \in time_time(now) :
                /\ usedIds' = usedIds \cup {id}
                /\ now' = current_time
                /\ Begin(p, ev, "cre_put_movie",
                         [NoLocal EXCEPT !.movie_item =
                              new_movie_item(id, body.title, user, current_time),
                          !.time = current_time])
    /\ UNCHANGED <<movies, interests, deleted>>

\* faulty variant: the movie is written before the title is validated
CreateMovie_Start_StoreFirst(p) ==
    /\ CanStart(p)
    /\ \E ev \in CreateEvents :
        /\ ev.body.kind = "object"
        /\ ~validate_movie_title(ev.body.title)[1]
        /\ Reject(p, ev, error_response(400, validate_movie_title(ev.body.title)[2],
                                        "ValidationError"))
        /\ \E id \in uuid4(usedIds) :
            /\ usedIds' = usedIds \cup {id}
            /\ movies' = put_movie_item(movies,
                   [movieId |-> id, title |-> <<>>, status |-> "wishlist",
                    createdBy |-> ev.userId, createdAt |-> now, updatedAt |-> now])
    /\ UNCHANGED <<interests, now, deleted>>

CreateMovie_Start(p) == CreateMovie_Receive(p, CreateEvents)

\* lines 72-75: movies_table.put_item
CreateMovie_PutMovie(p) ==
    /\ pc[p] = "cre_put_movie"
    /\ \/ /\ movies' = put_movie_item(movies, local[p].movie_item)
          /\ Goto(p, "cre_put_interest", local[p])
       \/ /\ \E e \in Faults : Return(p, store_error_response(e), "fault")
          /\ UNCHANGED movies
    /\ UNCHANGED <<interests, now, usedIds, calls, deleted>>

\* faulty variant: the movie is deleted again when the interest's put fails
CreateMovie_PutInterest_Rollback(p) ==
    /\ pc[p] = "cre_put_interest"
    /\ \/ /\ interests' = put_interest_item(interests,
                 new_interest_item(event[p].userId, local[p].movie_item.movieId,
                                   local[p].time))
          /\ Return(p, success_response(201, local[p].movie_item), "ok")
          /\ UNCHANGED movies
       \/ /\ \E e \in Faults : Return(p, store_error_response(e), "fault")
          /\ movies' = {m \in movies : m.movieId # local[p].movie_item.movieId}
          /\ UNCHANGED interests
    /\ UNCHANGED <<now, usedIds, calls, deleted>>

\* lines 77-93: interests_table.put_item, then the 201 response
\* faulty variant: a failure of the interest's put is ignored
CreateMovie_PutInterest_Ignored(p) ==
    /\ pc[p] = "cre_put_interest"
    /\ \/ /\ interests' = put_interest_item(interests,
                 new_interest_item(event[p].userId, local[p].movie_item.movieId,
                                   local[p].time))
          /\ Return(p, success_response(201, local[p].movie_item), "ok")
       \/ /\ \E e \in Faults : Return(p, success_response(201, local[p].movie_item), "fault")
          /\ UNCHANGED interests
    /\ UNCHANGED <<movies, now, usedIds, calls, deleted>>

CreateMovie_PutInterest(p) ==
    /\ pc[p] = "cre_put_interest"
    /\ \/ /\ interests' = put_interest_item(interests,
                 new_interest_item(event[p].userId, local[p].movie_item.movieId,
                                   local[p].time))
          /\ Return(p, success_response(201, local[p].movie_item), "ok")
       \/ /\ \E e \in Faults : Return(p, store_error_response(e), "fault")
          /\ UNCHANGED interests
    /\ UNCHANGED <<movies, now, usedIds, calls, deleted>>

(***************************************************************************)
(* update_movie_status.py                                                  *)
(***************************************************************************)
\* the successful update of movie id by the invocation that returned last, as
\* long as no invocation has started since
LastUpdate(id) ==
    LET done == {q \in Procs : /\ pc[q] = "done"
                               /\ event[q].op = "updateStatus"
                               /\ event[q].movieId = id
                               /\ resp[q].statusCode = 200}
    IN IF done = {} THEN NoItem
       ELSE LET q == CHOOSE r \in done : TRUE
            IN [requested |-> event[q].body.status.s,
                before |-> local[q].before, after |-> resp[q].body]

\* lines 33-53
UpdateStatus_Start(p) ==
    /\ CanStart(p)
    /\ \E ev \in UpdateEvents :
        LET id == ev.movieId
            body == ev.body
        IN
        IF id = Missing THEN Reject(p, ev, MissingMovieId) /\ UNCHANGED now
        ELSE IF body.kind = "badjson" THEN Reject(p, ev, InvalidJson) /\ UNCHANGED now
        ELSE IF body.kind = "notobject" THEN Reject(p, ev, ServerError) /\ UNCHANGED now
        ELSE IF ~validate_movie_status(body.status)[1] THEN
            Reject(p, ev, error_response(400, validate_movie_status(body.status)[2],
                                         "ValidationError"))
            /\ UNCHANGED now
        ELSE \E current_time \in time_time(now) :
                /\ now' = current_time
                /\ Begin(p, ev, "upd", [NoLocal EXCEPT !.time = current_time,
                                                       !.prev = LastUpdate(id)])
    /\ UNCHANGED <<movies, interests, usedIds, deleted>>

\* faulty variant: update_item carries no ConditionExpression, so that it
\* creates the item when none is stored
UpdateStatus_Update_Upsert(p) ==
    /\ pc[p] = "upd"
    /\ LET id == event[p].movieId
           found == get_item(movies, id)
           old == IF found = {} THEN {[movieId |-> id, title |-> <<>>, status |-> "",
                                       createdBy |-> "", createdAt |-> 0, updatedAt |-> 0]}
                  ELSE found
       IN \/ \E m \in old :
                 LET new == updated_movie(m, event[p].body.status.s, local[p].time) IN
                 /\ movies' = put_movie_item(movies, new)
                 /\ SetProc(p, "done", event[p], [local[p] EXCEPT !.before = m],
                            success_response(200, new), "ok")
          \/ /\ \E e \in Faults : Return(p, update_error_response(e), "fault")
             /\ UNCHANGED movies
    /\ UNCHANGED <<interests, now, usedIds, calls, deleted>>

\* faulty variant: the condition also forbids the way back from downloaded
UpdateStatus_Update_OneWay(p) ==
    /\ pc[p] = "upd"
    /\ LET id == event[p].movieId
           found == {m \in get_item(movies, id) : m.status # "downloaded"}
       IN \/ /\ found # {}
             /\ \E m \in found :
                 LET new == updated_movie(m, event[p].body.status.s, local[p].time) IN
                 /\ movies' = put_movie_item(movies, new)
                 /\ SetProc(p, "done", event[p], [local[p] EXCEPT !.before = m],
                            success_response(200, new), "ok")
          \/ /\ found = {}
             /\ Return(p, update_error_response(ClientError("ConditionalCheckFailedException")),
                       "condition")
             /\ UNCHANGED movies
          \/ /\ \E e \in Faults : Return(p, update_error_response(e), "fault")
             /\ UNCHANGED movies
    /\ UNCHANGED <<interests, now, usedIds, calls, deleted>>

\* lines 55-79: the conditional update_item
UpdateStatus_Update(p) ==
    /\ pc[p] = "upd"
    /\ LET id == event[p].movieId
           found == get_item(movies, id)
       IN \/ /\ found # {}
             /\ \E m \in found :
                 LET new == updated_movie(m, event[p].body.status.s, local[p].time) IN
                 /\ movies' = put_movie_item(movies, new)
                 /\ SetProc(p, "done", event[p], [local[p] EXCEPT !.before = m],
                            success_response(200, new), "ok")
          \/ /\ found = {}
             /\ Return(p, update_error_response(ClientError("ConditionalCheckFailedException")),
                       "condition")
             /\ UNCHANGED movies
          \/ /\ \E e \in Faults : Return(p, update_error_response(e), "fault")
             /\ UNCHANGED movies
    /\ UNCHANGED <<interests, now, usedIds, calls, deleted>>

(***************************************************************************)
(* add_interest.py                                                         *)
(***************************************************************************)
\* faulty variant: the response of get_item is not inspected
AddInterest_GetMovie_Unchecked(p) ==
    /\ CanStart(p)
    /\ calls' = calls + 1
    /\ \E ev \in AddEvents :
        IF ev.movieId = Missing THEN SetProc(p, "done", ev, NoLocal, MissingMovieId, "none")
        ELSE IF ev.userId = Missing THEN SetProc(p, "done", ev, NoLocal, Unauthorized, "none")
        ELSE \/ SetProc(p, "add_put", ev, [NoLocal EXCEPT !.time = now], NoResp, "ok")
             \/ \E e \in Faults :
                  SetProc(p, "done", ev, NoLocal, store_error_response(e), "fault")
    /\ UNCHANGED <<movies, interests, now, usedIds, deleted>>

\* faulty variant: the caller's identity is checked after get_item
AddInterest_GetMovie_LateIdentity(p) ==
    /\ CanStart(p)
    /\ calls' = calls + 1
    /\ \E ev \in AddEvents :
        LET id == ev.movieId
            user == ev.userId
        IN
        IF id = Missing THEN SetProc(p, "done", ev, NoLocal, MissingMovieId, "none")
        ELSE \/ /\ get_item(movies, id) # {}
                /\ IF user = Missing
                   THEN SetProc(p, "done", ev, NoLocal, Unauthorized, "ok")
                   ELSE SetProc(p, "add_put", ev, [NoLocal EXCEPT !.time = now],
                                NoResp, "ok")
             \/ /\ get_item(movies, id) = {}
                /\ SetProc(p, "done", ev, NoLocal, NotFound, "ok")
             \/ \E e \in Faults :
                  SetProc(p, "done", ev, NoLocal, store_error_response(e), "fault")
    /\ UNCHANGED <<movies, interests, now, usedIds, deleted>>

\* lines 22-45: the event is read, then movies_table.get_item
AddInterest_GetMovie(p) ==
    /\ CanStart(p)
    /\ calls' = calls + 1
    /\ \E ev \in AddEvents :
        LET id == ev.movieId
            user == ev.userId
        IN
        IF id = Missing THEN SetProc(p, "done", ev, NoLocal, MissingMovieId, "none")
        ELSE IF user = Missing THEN SetProc(p, "done", ev, NoLocal, Unauthorized, "none")
        ELSE \/ /\ get_item(movies, id) # {}
                /\ SetProc(p, "add_put", ev, [NoLocal EXCEPT !.time = now], NoResp, "ok")
             \/ /\ get_item(movies, id) = {}
                /\ SetProc(p, "done", ev, NoLocal, NotFound, "ok")
             \/ \E e \in Faults :
                  SetProc(p, "done", ev, NoLocal, store_error_response(e), "fault")
    /\ UNCHANGED <<movies, interests, now, usedIds, deleted>>

\* faulty variant: the item is written before the failure is raised
AddInterest_PutInterest_Applied(p) ==
    /\ pc[p] = "add_put"
    /\ \E current_time \in time_time(local[p].time) :
        /\ now' = Later(current_time)
        /\ LET item == new_interest_item(event[p].userId, event[p].movieId, current_time) IN
            /\ interests' = put_interest_item(interests, item)
            /\ \/ SetProc(p, "done", event[p],
                           [local[p] EXCEPT !.existed =
                                \E i \in interests : InterestKey(i) = InterestKey(item)],
                           success_response(201, item), "ok")
               \/ \E e \in Faults : Return(p, store_error_response(e), "fault")
    /\ UNCHANGED <<movies, usedIds, calls, deleted>>

\* lines 47-61: the clock is read after get_item returned, then put_item
AddInterest_PutInterest(p) ==
    /\ pc[p] = "add_put"
    /\ \E current_time \in time_time(local[p].time) :
        /\ now' = Later(current_time)
        /\ LET item == new_interest_item(event[p].userId, event[p].movieId, current_time) IN
            \/ /\ interests' = put_interest_item(interests, item)
               /\ SetProc(p, "done", event[p],
                          [local[p] EXCEPT !.existed =
                               \E i \in interests : InterestKey(i) = InterestKey(item)],
                          success_response(201, item), "ok")
            \/ /\ \E e \in Faults : Return(p, store_error_response(e), "fault")
               /\ UNCHANGED interests
    /\ UNCHANGED <<movies, usedIds, calls, deleted>>

(***************************************************************************)
(* remove_interest.py                                                      *)
(***************************************************************************)
\* lines 23-55: the event is read, then interests_table.delete_item
RemoveInterest(p) ==
    /\ CanStart(p)
    /\ calls' = calls + 1
    /\ \E ev \in RemoveEvents :
        LET id == ev.movieId
            user == ev.userId
        IN
        IF id = Missing THEN
            SetProc(p, "done", ev, NoLocal, MissingMovieId, "none") /\ UNCHANGED interests
        ELSE IF user = Missing THEN
            SetProc(p, "done", ev, NoLocal, Unauthorized, "none") /\ UNCHANGED interests
        ELSE \/ /\ interests' = delete_interest_item(interests, user, id)
                /\ SetProc(p, "done", ev,
                           [NoLocal EXCEPT !.existed =
                                \E i \in interests : InterestKey(i) = <<user, id>>],
                           no_content_response, "ok")
             \/ /\ \E e \in Faults :
                     SetProc(p, "done", ev, NoLocal, store_error_response(e), "fault")
                /\ UNCHANGED interests
    /\ UNCHANGED <<movies, now, usedIds, deleted>>

(***************************************************************************)
(* delete_movie.py                                                         *)
(***************************************************************************)
\* lines 23-42: the event is read, then the query of MovieInterestsIndex
DeleteMovie_Query(p) ==
    /\ CanStart(p)
    /\ calls' = calls + 1
    /\ \E ev \in DeleteEvents :
        LET id == ev.movieId IN
        IF id = Missing THEN SetProc(p, "done", ev, NoLocal, MissingMovieId, "none")
        ELSE \/ SetProc(p, "del_txn", ev,
                        [NoLocal EXCEPT !.interests = query_movie_interests(interests, id)],
                        NoResp, "ok")
             \/ \E e \in Faults :
                  SetProc(p, "done", ev, NoLocal, store_error_response(e), "fault")
    /\ UNCHANGED <<movies, interests, now, usedIds, deleted>>

\* faulty variant: the transaction waits until no other invocation is in
\* flight
DeleteMovie_Transact_Waiting(p) ==
    /\ pc[p] = "del_txn"
    /\ \A q \in Procs \ {p} : pc[q] \in {"idle", "done"}
    /\ \/ /\ get_item(movies, event[p].movieId) # {}
          /\ movies' = transact_delete_movies(movies, event[p].movieId)
          /\ interests' = transact_delete_interests(interests, local[p].interests)
          /\ deleted' = deleted \cup {event[p].movieId}
          /\ Return(p, no_content_response, "ok")
       \/ /\ get_item(movies, event[p].movieId) = {}
          /\ \E e \in ConditionFailures : Return(p, delete_error_response(e), "condition")
          /\ UNCHANGED <<movies, interests, deleted>>
       \/ /\ \E e \in TransactionFaults : Return(p, delete_error_response(e), "fault")
          /\ UNCHANGED <<movies, interests, deleted>>
    /\ UNCHANGED <<now, usedIds, calls>>

\* faulty variant: the interests are deleted one by one before the movie,
\* outside a transaction, so they stay deleted when the movie's delete fails
DeleteMovie_Transact_NotAtomic(p) ==
    /\ pc[p] = "del_txn"
    /\ interests' = transact_delete_interests(interests, local[p].interests)
    /\ \/ /\ get_item(movies, event[p].movieId) # {}
          /\ movies' = transact_delete_movies(movies, event[p].movieId)
          /\ deleted' = deleted \cup {event[p].movieId}
          /\ Return(p, no_content_response, "ok")
       \/ /\ get_item(movies, event[p].movieId) = {}
          /\ \E e \in ConditionFailures : Return(p, delete_error_response(e), "condition")
          /\ UNCHANGED <<movies, deleted>>
       \/ /\ \E e \in TransactionFaults : Return(p, delete_error_response(e), "fault")
          /\ UNCHANGED <<movies, deleted>>
    /\ UNCHANGED <<now, usedIds, calls>>

\* faulty variant: the delete of the movie carries no ConditionExpression
DeleteMovie_Transact_Unconditional(p) ==
    /\ pc[p] = "del_txn"
    /\ \/ /\ movies' = transact_delete_movies(movies, event[p].movieId)
          /\ interests' = transact_delete_interests(interests, local[p].interests)
          /\ deleted' = IF get_item(movies, event[p].movieId) # {}
                        THEN deleted \cup {event[p].movieId} ELSE deleted
          /\ Return(p, no_content_response, "ok")
       \/ /\ \E e \in TransactionFaults : Return(p, delete_error_response(e), "fault")
          /\ UNCHANGED <<movies, interests, deleted>>
    /\ UNCHANGED <<now, usedIds, calls>>

\* lines 44-91: transact_write_items and the classification of its failure
DeleteMovie_Transact(p) ==
    /\ pc[p] = "del_txn"
    /\ \/ /\ get_item(movies, event[p].movieId) # {}
          /\ movies' = transact_delete_movies(movies, event[p].movieId)
          /\ interests' = transact_delete_interests(interests, local[p].interests)
          /\ deleted' = deleted \cup {event[p].movieId}
          /\ Return(p, no_content_response, "ok")
       \/ /\ get_item(movies, event[p].movieId) = {}
          /\ \E e \in ConditionFailures : Return(p, delete_error_response(e), "condition")
          /\ UNCHANGED <<movies, interests, deleted>>
       \/ /\ \E e \in TransactionFaults : Return(p, delete_error_response(e), "fault")
          /\ UNCHANGED <<movies, interests, deleted>>
    /\ UNCHANGED <<now, usedIds, calls>>

(***************************************************************************)
(* The identity directory (Cognito), as the two listings use it.  A lookup *)
(* finds the user, finds nobody, or raises: a ClientError of the service,  *)
(* or another exception (no connection, a timeout).                        *)
(***************************************************************************)
Username(user_id) == IF user_id = "u1" THEN "alice" ELSE "bob"

Email(user_id) == IF user_id = "u1" THEN "alice@example.com" ELSE "bob@example.com"

None == "None"

ListUsersOutcomes == {"found", "notfound", "ClientError", "Exception"}

AdminGetUserOutcomes == {"found", "ClientError", "Exception"}

LookupRaised(outcome) == outcome \in {"ClientError", "Exception"}

\* get_movies.py: the Username of the first user found, the user id when
\* nobody is found or when list_users raises anything
get_username_from_user_id(user_id, outcome) ==
    IF outcome = "found" THEN Username(user_id) ELSE user_id

\* get_interested_users.py: the entry appended after admin_get_user
\* returned, and the entry appended by the except ClientError clause
user_entry(user_id, outcome) ==
    IF outcome = "found"
        THEN [userId |-> user_id, username |-> Username(user_id), email |-> Email(user_id)]
    ELSE [userId |-> user_id, username |-> None, email |-> None]

\* the items of a scan or of a query come in an order the store chooses
Orders(S) ==
    {s \in [1..Cardinality(S) -> S] : \A i, j \in 1..Cardinality(S) : i # j => s[i] # s[j]}

(***************************************************************************)
(* get_movies.py                                                           *)
(***************************************************************************)
\* the movie with its createdBy resolved and its interestedUsers attached
enriched_movie(movie, created_by, interested_users) ==
    [movieId |-> movie.movieId, title |-> movie.title, status |-> movie.status,
     createdBy |-> created_by, createdAt |-> movie.createdAt,
     updatedAt |-> movie.updatedAt, interestedUsers |-> interested_users]

\* faulty variant: the sort is not reversed (oldest first)
RECURSIVE sort_oldest_first(_)
sort_oldest_first(s) ==
    IF s = <<>> THEN <<>>
    ELSE LET x == s[Len(s)]
             t == sort_oldest_first(SubSeq(s, 1, Len(s) - 1))
             k == Cardinality({i \in 1..Len(t) : t[i].createdAt <= x.createdAt})
         IN SubSeq(t, 1, k) \o <<x>> \o SubSeq(t, k + 1, Len(t))

\* list.sort(key=createdAt, reverse=True): a stable sort, so among movies
\* of the same createdAt the order of the scan is kept
RECURSIVE sort_newest_first(_)
sort_newest_first(s) ==
    IF s = <<>> THEN <<>>
    ELSE LET x == s[Len(s)]
             t == sort_newest_first(SubSeq(s, 1, Len(s) - 1))
             k == Cardinality({i \in 1..Len(t) : t[i].createdAt >= x.createdAt})
         IN SubSeq(t, 1, k) \o <<x>> \o SubSeq(t, k + 1, Len(t))

\* lines 64-73 (and 107-111 when there is no movie): the scan of Movies
ListMovies_Scan(p) ==
    /\ CanStart(p)
    /\ calls' = calls + 1
    /\ \E ev \in ListMoviesEvents :
        \/ \E items \in Orders(movies) :
             IF items = <<>> THEN
                 SetProc(p, "done", ev, NoLocal,
                         success_response(200, JsonArray(sort_newest_first(<<>>))), "ok")
             ELSE SetProc(p, "list_query", ev, [NoLocal EXCEPT !.scanned = items],
                          NoResp, "ok")
        \/ \E e \in Faults :
             SetProc(p, "done", ev, NoLocal, store_error_response(e), "fault")
    /\ UNCHANGED <<movies, interests, now, usedIds, deleted>>

\* lines 77-105, one turn of the loop: createdBy is resolved, the interests
\* of the movie are queried and their users resolved; a ClientError of the
\* query leaves the movie with an empty interestedUsers, any other
\* exception reaches the outer except clause.  After the last movie, lines
\* 107-111: the sort and the response.
ListMovies_Query(p) ==
    /\ pc[p] = "list_query"
    /\ LET movie == Head(local[p].scanned)
           rest == Tail(local[p].scanned)
           Continue(created_by, interested_users, raised, f) ==
               LET loc == [local[p] EXCEPT
                              !.scanned = rest,
                              !.enriched = Append(@, enriched_movie(movie, created_by,
                                                                    interested_users)),
                              !.lookup_failed = @ \/ raised]
               IN IF rest = <<>>
                  THEN SetProc(p, "done", event[p], loc,
                               success_response(200,
                                   JsonArray(sort_newest_first(loc.enriched))), f)
                  ELSE SetProc(p, "list_query", event[p], loc, NoResp, f)
       IN \E o \in ListUsersOutcomes :
            LET created_by == get_username_from_user_id(movie.createdBy, o) IN
            \/ \E found \in Orders(query_movie_interests(interests, movie.movieId)) :
               \E os \in [1..Len(found) -> ListUsersOutcomes] :
                   Continue(created_by,
                            [i \in 1..Len(found) |->
                                get_username_from_user_id(found[i].userId, os[i])],
                            LookupRaised(o) \/ \E i \in 1..Len(found) : LookupRaised(os[i]),
                            "ok")
            \/ \E e \in Faults :
                 IF e.kind = "ClientError"
                 THEN Continue(created_by, <<>>, LookupRaised(o), "fault")
                 ELSE SetProc(p, "done", event[p],
                              [local[p] EXCEPT !.lookup_failed = @ \/ LookupRaised(o)],
                              ServerError, "fault")
    /\ UNCHANGED <<movies, interests, now, usedIds, deleted, calls>>

(***************************************************************************)
(* get_interested_users.py                                                 *)
(***************************************************************************)
\* faulty variant: a user whose lookup raised a ClientError is skipped
ListInterestedUsers_SkipUnresolved(p) ==
    /\ CanStart(p)
    /\ calls' = calls + 1
    /\ \E ev \in ListUsersEvents :
        LET id == ev.movieId IN
        IF id = Missing THEN SetProc(p, "done", ev, NoLocal, MissingMovieId, "none")
        ELSE \/ \E found \in Orders(query_movie_interests(interests, id)) :
                \E user_pool_id \in BOOLEAN :
                  IF user_pool_id THEN
                      \E os \in [1..Len(found) -> AdminGetUserOutcomes] :
                        LET loc == [NoLocal EXCEPT
                                       !.interests = {found[i] : i \in 1..Len(found)},
                                       !.user_pool_id = TRUE,
                                       !.lookup_failed =
                                           \E i \in 1..Len(found) : LookupRaised(os[i])]
                            entries == [i \in 1..Len(found) |->
                                           user_entry(found[i].userId, os[i])]
                        IN IF \E i \in 1..Len(found) : os[i] = "Exception"
                           THEN SetProc(p, "done", ev, loc, ServerError, "ok")
                           ELSE SetProc(p, "done", ev, loc,
                                        success_response(200,
                                            JsonArray(SelectSeq(entries,
                                                LAMBDA x : x.username # None))),
                                        "ok")
                  ELSE SetProc(p, "done", ev,
                               [NoLocal EXCEPT
                                   !.interests = {found[i] : i \in 1..Len(found)}],
                               success_response(200,
                                   JsonArray([i \in 1..Len(found) |->
                                                 [userId |-> found[i].userId]])),
                               "ok")
             \/ \E e \in Faults :
                  SetProc(p, "done", ev, NoLocal, store_error_response(e), "fault")
    /\ UNCHANGED <<movies, interests, now, usedIds, deleted>>

\* lines 23-89: the query of MovieInterestsIndex, then, when USER_POOL_ID
\* is set, one admin_get_user for each interest; only a ClientError of the
\* lookup is caught in the loop, any other exception reaches the outer
\* except clause
ListInterestedUsers(p) ==
    /\ CanStart(p)
    /\ calls' = calls + 1
    /\ \E ev \in ListUsersEvents :
        LET id == ev.movieId IN
        IF id = Missing THEN SetProc(p, "done", ev, NoLocal, MissingMovieId, "none")
        ELSE \/ \E found \in Orders(query_movie_interests(interests, id)) :
                \E user_pool_id \in BOOLEAN :
                  IF user_pool_id THEN
                      \E os \in [1..Len(found) -> AdminGetUserOutcomes] :
                        LET loc == [NoLocal EXCEPT
                                       !.interests = {found[i] : i \in 1..Len(found)},
                                       !.user_pool_id = TRUE,
                                       !.lookup_failed =
                                           \E i \in 1..Len(found) : LookupRaised(os[i])]
                        IN IF \E i \in 1..Len(found) : os[i] = "Exception"
                           THEN SetProc(p, "done", ev, loc, ServerError, "ok")
                           ELSE SetProc(p, "done", ev, loc,
                                        success_response(200,
                                            JsonArray([i \in 1..Len(found) |->
                                                user_entry(found[i].userId, os[i])])),
                                        "ok")
                  ELSE SetProc(p, "done", ev,
                               [NoLocal EXCEPT
                                   !.interests = {found[i] : i \in 1..Len(found)}],
                               success_response(200,
                                   JsonArray([i \in 1..Len(found) |->
                                                 [userId |-> found[i].userId]])),
                               "ok")
             \/ \E e \in Faults :
                  SetProc(p, "done", ev, NoLocal, store_error_response(e), "fault")
    /\ UNCHANGED <<movies, interests, now, usedIds, deleted>>

(***************************************************************************)
(* The system: any number of invocations, interleaved.                     *)
(***************************************************************************)
Step(p) ==
    \/ CreateMovie_Start(p)
    \/ CreateMovie_PutMovie(p)
    \/ CreateMovie_PutInterest(p)
    \/ UpdateStatus_Start(p)
    \/ UpdateStatus_Update(p)
    \/ AddInterest_GetMovie(p)
    \/ AddInterest_PutInterest(p)
    \/ RemoveInterest(p)
    \/ DeleteMovie_Query(p)
    \/ DeleteMovie_Transact(p)

Next == \E p \in Procs : Step(p)

Spec == Init /\ [][Next]_vars

\* invocations run one at a time: p takes a step only while no other
\* invocation is in flight
Quiet(p) == \A q \in Procs \ {p} : Free(q)

SerialNext == \E p \in Procs : Quiet(p) /\ Step(p)

SpecSerial == Init /\ [][SerialNext]_vars

\* createMovie alone, one invocation at a time, with the titles around the
\* limits
TitlesNext ==
    \E p \in Procs :
        /\ Quiet(p)
        /\ \/ CreateMovie_Receive(p, BoundaryEvents)
           \/ CreateMovie_PutMovie(p)
           \/ CreateMovie_PutInterest(p)

SpecTitles == Init /\ [][TitlesNext]_vars

\* invocations one at a time, from a state in which a movie is stored
SpecStored == InitStored /\ [][SerialNext]_vars

\* the writing operations and the two listings, one invocation at a time
ReadNext ==
    \E p \in Procs :
        /\ Quiet(p)
        /\ \/ Step(p)
           \/ ListMovies_Scan(p)
           \/ ListMovies_Query(p)
           \/ ListInterestedUsers(p)

SpecRead == Init /\ [][ReadNext]_vars

\* the step of invocation p after a store call of its handler returned or
\* raised: every step that is not the start of an invocation
Proceed(p) ==
    \/ CreateMovie_PutMovie(p)
    \/ CreateMovie_PutInterest(p)
    \/ UpdateStatus_Update(p)
    \/ AddInterest_PutInterest(p)
    \/ DeleteMovie_Transact(p)
    \/ ListMovies_Query(p)

\* the seven operations, interleaved
LiveNext ==
    \E p \in Procs :
        \/ Step(p)
        \/ ListMovies_Scan(p)
        \/ ListMovies_Query(p)
        \/ ListInterestedUsers(p)

\* every invocation runs in an execution context of its own and every call
\* to the store or to the directory returns or raises within the client's
\* timeout, so an invocation in flight takes its next step
SpecLive == Init /\ [][LiveNext]_vars /\ \A p \in Procs : WF_vars(Proceed(p))

(***************************************************************************)
(* Properties.                                                             *)
(***************************************************************************)
Stored(m) == \E x \in movies : x.movieId = m
StoredAfter(m) == \E x \in movies' : x.movieId = m

KeyOf(i) == <<i.userId, i.movieId>>

Keys(found) == {KeyOf(f) : f \in found}

\* the step is the transaction of invocation p's deleteMovie
TransactStep(p) == pc[p] = "del_txn" /\ pc'[p] = "done"

\* the step is the start of a new invocation in slot p
StartStep(p) == CanStart(p) /\ calls' = calls + 1

IsDone(p, op, status) ==
    pc[p] = "done" /\ event[p].op = op /\ resp[p].statusCode = status

\* C1  Cascade atomicity: the transaction of deleteMovie(m), built from the K
\* interests its query returned, either removes the movie and all K of them
\* or removes nothing at all, also when the store fails the transaction.
C1_CascadeAtomicity ==
    [][\A p \in Procs : TransactStep(p) =>
          LET m == event[p].movieId
              K == local[p].interests
          IN \/ /\ Stored(m) /\ ~StoredAfter(m)
                /\ \A i \in interests' : KeyOf(i) \notin Keys(K)
             \/ /\ movies' = movies
                /\ interests' = interests]_vars

\* a deleteMovie that found two interests has committed
C1_Witness ==
    \E p \in Procs :
        /\ IsDone(p, "deleteMovie", 204)
        /\ Cardinality(local[p].interests) = 2
        /\ ~Stored(event[p].movieId)
        /\ \A i \in interests : KeyOf(i) \notin Keys(local[p].interests)

\* C2  Referential integrity: no stored Interest references a movieId for
\* which no Movie is stored.
C2_ReferentialIntegrity == \A i \in interests : Stored(i.movieId)

\* C2 (amended)  Every stored Interest references a movieId whose Movie is
\* stored or was stored and deleted by a committed deleteMovie: an Interest
\* written around the commit of the cascade deletion of its movie stays
\* stored, and no other Interest references a missing Movie.
C2_InterestsOfStoredOrDeletedMovies ==
    \A i \in interests : Stored(i.movieId) \/ i.movieId \in deleted

\* an Interest that references a deleted movie is stored
C2_Witness ==
    \E i \in interests : ~Stored(i.movieId) /\ i.movieId \in deleted

\* C3  Idempotence of addInterest: whenever addInterest writes the pair
\* (userId, movieId), already stored or not, and the store does not fail, it
\* answers 201 with the written record and exactly one Interest is stored
\* for the pair.
C3_AddInterestIdempotent ==
    [][\A p \in Procs : (pc[p] = "add_put" /\ pc'[p] = "done" /\ fault'[p] # "fault") =>
          LET key == <<event[p].userId, event[p].movieId>> IN
          /\ resp'[p].statusCode = 201
          /\ resp'[p].kind = "json"
          /\ Cardinality({i \in interests' : KeyOf(i) = key}) = 1
          /\ resp'[p].body \in interests'
          /\ KeyOf(resp'[p].body) = key]_vars

\* addInterest has answered 201 for a pair that was stored already
C3_Witness ==
    \E p \in Procs :
        /\ IsDone(p, "addInterest", 201)
        /\ local[p].existed
        /\ Cardinality({i \in interests : KeyOf(i) = KeyOf(resp[p].body)}) = 1

\* C4  Idempotence of removeInterest: for every pair (userId, movieId),
\* stored or not, of a stored movie or not, removeInterest answers 204 unless
\* the store fails, and then no Interest is stored for the pair.
C4_RemoveInterestIdempotent ==
    [][\A p \in Procs :
          (/\ StartStep(p)
           /\ event'[p].op = "removeInterest"
           /\ event'[p].movieId # Missing
           /\ event'[p].userId # Missing
           /\ fault'[p] # "fault") =>
              /\ pc'[p] = "done"
              /\ resp'[p] = no_content_response
              /\ \A i \in interests' :
                    KeyOf(i) # <<event'[p].userId, event'[p].movieId>>]_vars

\* removeInterest has answered 204 for a pair that was not stored, of a movie
\* that is not stored
C4_Witness ==
    \E p \in Procs :
        /\ IsDone(p, "removeInterest", 204)
        /\ ~local[p].existed
        /\ ~Stored(event[p].movieId)

\* C5  Existence precondition of addInterest: when no Movie is stored for
\* movieId and the store does not fail, addInterest answers 404
\* NotFoundError and the store is unchanged.
C5_AddInterestNotFound ==
    [][\A p \in Procs :
          (/\ StartStep(p)
           /\ event'[p].op = "addInterest"
           /\ event'[p].movieId # Missing
           /\ event'[p].userId # Missing
           /\ ~Stored(event'[p].movieId)
           /\ fault'[p] # "fault") =>
              /\ pc'[p] = "done"
              /\ resp'[p] = NotFound
              /\ resp'[p].statusCode = 404
              /\ interests' = interests
              /\ movies' = movies]_vars

\* addInterest has answered 404 for a movie that is not stored
C5_Witness ==
    \E p \in Procs :
        /\ IsDone(p, "addInterest", 404)
        /\ resp[p].body.errorType = "NotFoundError"
        /\ ~Stored(event[p].movieId)
        /\ \A i \in interests : KeyOf(i) # <<event[p].userId, event[p].movieId>>

\* C6  Existence precondition of deleteMovie: when no Movie is stored for
\* movieId and the store does not fail, deleteMovie answers 404
\* NotFoundError and the store is unchanged, the interests its query
\* returned included.
C6_DeleteMovieNotFound ==
    [][\A p \in Procs :
          (TransactStep(p) /\ ~Stored(event[p].movieId) /\ fault'[p] # "fault") =>
              /\ resp'[p] = NotFound
              /\ resp'[p].statusCode = 404
              /\ movies' = movies
              /\ interests' = interests]_vars

\* deleteMovie has answered 404 and the interests its query returned are
\* still stored
C6_Witness ==
    \E p \in Procs :
        /\ IsDone(p, "deleteMovie", 404)
        /\ local[p].interests # {}
        /\ local[p].interests \subseteq interests

\* C7  Interest creation-time invariant: when addInterest writes its
\* Interest for movieId m, a Movie m is stored.
C7_MovieStoredAtInterestWrite ==
    [][\A p \in Procs :
          (pc[p] = "add_put" /\ pc'[p] = "done" /\ fault'[p] = "ok") =>
              Stored(event[p].movieId)]_vars

\* C8  deleteMovie success postcondition: with no store failure and no other
\* invocation running, deleteMovie(m) of a stored movie answers 204, and
\* then neither the Movie m nor any Interest referencing m is stored.
C8_DeleteMoviePostcondition ==
    [][\A p \in Procs :
          (TransactStep(p) /\ Stored(event[p].movieId) /\ fault'[p] # "fault") =>
              /\ resp'[p] = no_content_response
              /\ ~StoredAfter(event[p].movieId)
              /\ {i \in interests' : i.movieId = event[p].movieId} = {}]_vars

\* a deleteMovie of a movie with interests has answered 204
C8_Witness ==
    \E p \in Procs :
        /\ IsDone(p, "deleteMovie", 204)
        /\ local[p].interests # {}
        /\ ~Stored(event[p].movieId)
        /\ {i \in interests : i.movieId = event[p].movieId} = {}

\* C9  Retry safety of deleteMovie: a transaction that the store fails
\* changes nothing; a transaction that the store does not fail either
\* commits the complete deletion or answers 404 NotFoundError because the
\* movie is not stored; and a movie whose deletion was committed is never
\* stored again, so that every later deleteMovie of it answers 404.
C9_DeleteMovieRetrySafe ==
    [][/\ \A m \in deleted' : ~StoredAfter(m)
       /\ \A p \in Procs : TransactStep(p) =>
            LET m == event[p].movieId IN
            /\ fault'[p] = "fault" =>
                  /\ movies' = movies /\ interests' = interests
                  /\ resp'[p].statusCode >= 500
            /\ fault'[p] # "fault" =>
                  \/ /\ resp'[p] = no_content_response
                     /\ Stored(m) /\ ~StoredAfter(m)
                     /\ \A i \in interests' : KeyOf(i) \notin Keys(local[p].interests)
                  \/ /\ resp'[p] = NotFound
                     /\ ~Stored(m)
                     /\ movies' = movies /\ interests' = interests
            /\ (m \in deleted /\ fault'[p] # "fault") => resp'[p] = NotFound]_vars

\* a deleteMovie of a movie whose deletion was committed before has answered
\* 404
C9_Witness ==
    \E p \in Procs :
        /\ IsDone(p, "deleteMovie", 404)
        /\ resp[p].body.errorType = "NotFoundError"
        /\ event[p].movieId \in deleted

\* C10  createMovie postcondition: the movieId is fresh; a createMovie that
\* answers 201 has stored a Movie with that movieId, the trimmed title,
\* status wishlist, createdBy the caller and createdAt = updatedAt, and an
\* Interest of the caller in it; the record answered is the stored Movie.
C10_CreateMoviePostcondition ==
    [][\A p \in Procs :
          /\ (StartStep(p) /\ pc'[p] = "cre_put_movie") =>
                /\ local'[p].movie_item.movieId \notin usedIds
                /\ ~Stored(local'[p].movie_item.movieId)
          /\ (pc[p] = "cre_put_interest" /\ pc'[p] = "done"
                /\ resp'[p].statusCode = 201) =>
                LET r == resp'[p].body IN
                /\ {x \in movies' : x.movieId = r.movieId} = {r}
                /\ r.title = strip(event[p].body.title.s)
                /\ r.status = "wishlist"
                /\ r.createdBy = event[p].userId
                /\ r.createdAt = r.updatedAt
                /\ [userId |-> event[p].userId, movieId |-> r.movieId,
                    createdAt |-> r.createdAt] \in interests']_vars

\* a createMovie whose title had surrounding blanks has answered 201
C10_Witness ==
    \E p \in Procs :
        /\ IsDone(p, "createMovie", 201)
        /\ event[p].body.title.s # strip(event[p].body.title.s)
        /\ resp[p].body \in movies
        /\ \E i \in interests : KeyOf(i) = <<event[p].userId, resp[p].body.movieId>>

\* C11  Non-atomic creation pairing: when createMovie's put of the creator's
\* Interest fails after its put of the Movie succeeded, the handler answers
\* an error and writes nothing more: the Movie stays stored, with no
\* Interest of the creator.
C11_MovieKeptWithoutInterest ==
    [][\A p \in Procs :
          (pc[p] = "cre_put_interest" /\ pc'[p] = "done" /\ fault'[p] = "fault") =>
              /\ local[p].movie_item \in movies'
              /\ movies' = movies
              /\ interests' = interests
              /\ \A i \in interests' : i.movieId # local[p].movie_item.movieId
              /\ resp'[p].kind = "error"
              /\ resp'[p].statusCode >= 500]_vars

\* a createMovie has answered an error after its Movie was stored, and the
\* Movie is stored without an Interest
C11_Witness ==
    \E p \in Procs :
        /\ pc[p] = "done" /\ event[p].op = "createMovie" /\ fault[p] = "fault"
        /\ resp[p].body.errorType \in {"DatabaseError", "ServerError"}
        /\ local[p].movie_item \in movies
        /\ \A i \in interests : i.movieId # local[p].movie_item.movieId

\* the step is a successful update_item of invocation p, which started right
\* after a successful updateStatus(first) of the same movie had returned,
\* and itself requests the status second
UpdatePair(p, first, second) ==
    /\ pc[p] = "upd" /\ pc'[p] = "done" /\ resp'[p].statusCode = 200
    /\ local[p].prev # NoItem
    /\ local[p].prev.requested = first
    /\ event[p].body.status.s = second

\* C12  Status round-trip: updateStatus(id, downloaded) followed by
\* updateStatus(id, wishlist) leaves the movie with the status it had before
\* the two calls, and updatedAt does not decrease across the two calls.
C12_StatusRoundTrip ==
    [][\A p \in Procs : UpdatePair(p, "downloaded", "wishlist") =>
          LET a == local[p].prev
              r == resp'[p].body
          IN /\ r \in movies'
             /\ r.status = a.before.status
             /\ a.before.updatedAt <= a.after.updatedAt
             /\ a.after.updatedAt <= r.updatedAt]_vars

\* C12 (amended)  updateStatus(id, downloaded) followed by
\* updateStatus(id, wishlist) leaves the movie in status wishlist, which is
\* the status it had before the two calls exactly when that status was
\* wishlist; updatedAt does not decrease across the two calls.
C12_RoundTripFromWishlist ==
    [][\A p \in Procs : UpdatePair(p, "downloaded", "wishlist") =>
          LET a == local[p].prev
              r == resp'[p].body
          IN /\ r \in movies'
             /\ a.after.status = "downloaded"
             /\ r.status = "wishlist"
             /\ (r.status = a.before.status) <=> (a.before.status = "wishlist")
             /\ a.before.updatedAt <= a.after.updatedAt
             /\ a.after.updatedAt <= r.updatedAt]_vars

\* a movie in status wishlist has been set to downloaded and back, at a
\* later time
C12_Witness ==
    \E p \in Procs :
        /\ IsDone(p, "updateStatus", 200)
        /\ local[p].prev # NoItem
        /\ local[p].prev.before.status = "wishlist"
        /\ local[p].prev.after.status = "downloaded"
        /\ resp[p].body.status = "wishlist"
        /\ resp[p].body \in movies
        /\ resp[p].body.updatedAt > local[p].prev.before.updatedAt

MovieKeys(table) == {m.movieId : m \in table}

\* the step is the update_item of invocation p's updateStatus
UpdateStep(p) == pc[p] = "upd" /\ pc'[p] = "done"

\* C13  Existence precondition of updateStatus: when no Movie is stored for
\* movieId and the store does not fail, updateStatus with a valid status
\* answers 404 NotFoundError and the store is unchanged; no step of an
\* updateStatus adds a key to the Movies table.
C13_UpdateStatusNotFound ==
    [][\A p \in Procs :
          /\ (StartStep(p) /\ event'[p].op = "updateStatus") => movies' = movies
          /\ UpdateStep(p) =>
                /\ MovieKeys(movies') \subseteq MovieKeys(movies)
                /\ (~Stored(event[p].movieId) /\ fault'[p] # "fault") =>
                      /\ resp'[p] = NotFound
                      /\ resp'[p].statusCode = 404
                      /\ resp'[p].body.errorType = "NotFoundError"
                      /\ movies' = movies
                      /\ interests' = interests]_vars

\* an updateStatus with a valid status has answered 404 for a movie that is
\* not stored
C13_Witness ==
    \E p \in Procs :
        /\ IsDone(p, "updateStatus", 404)
        /\ event[p].body.status.s \in {"wishlist", "downloaded"}
        /\ resp[p].body.errorType = "NotFoundError"
        /\ ~Stored(event[p].movieId)

\* C14  Every successful updateStatus stores the requested status and sets
\* updatedAt to the time the call read, also when the requested status is
\* the stored one; the record answered is the stored Movie.
C14_UpdatedAtRefreshed ==
    [][\A p \in Procs : (UpdateStep(p) /\ resp'[p].statusCode = 200) =>
          LET r == resp'[p].body IN
          /\ {x \in movies' : x.movieId = event[p].movieId} = {r}
          /\ r.updatedAt = local[p].time
          /\ r.status = event[p].body.status.s]_vars

\* an updateStatus to the status the movie already had has answered 200 and
\* the movie's updatedAt has advanced
C14_Witness ==
    \E p \in Procs :
        /\ IsDone(p, "updateStatus", 200)
        /\ local[p].before.status = event[p].body.status.s
        /\ resp[p].body.status = local[p].before.status
        /\ resp[p].body.updatedAt > local[p].before.updatedAt
        /\ resp[p].body \in movies

\* the length of s without its leading and trailing blanks, counted on the
\* positions of s
FirstChar(s) ==
    CHOOSE i \in 1..Len(s) : s[i] # " " /\ \A j \in 1..(i - 1) : s[j] = " "

LastChar(s) ==
    CHOOSE i \in 1..Len(s) : s[i] # " " /\ \A j \in (i + 1)..Len(s) : s[j] = " "

TrimmedLen(s) ==
    IF \A i \in 1..Len(s) : s[i] = " " THEN 0 ELSE LastChar(s) - FirstChar(s) + 1

\* the step is the start of a createMovie by an identified caller whose body
\* is a JSON object
CreateStep(p) ==
    /\ StartStep(p)
    /\ event'[p].op = "createMovie"
    /\ event'[p].userId # Missing
    /\ event'[p].body.kind = "object"

IsString(v) == v.t = "string"

ReturnStep(p) ==
    \/ StartStep(p) /\ pc'[p] = "done"
    \/ pc[p] \notin {"idle", "done"} /\ pc'[p] = "done"

\* C17  A request answered with ValidationError writes nothing: the Movies
\* and Interests tables are the same after the handler as before it, for a
\* createMovie with an invalid title and for an updateStatus with an invalid
\* status alike.
C17_ValidationErrorWritesNothing ==
    [][\A p \in Procs :
          (/\ ReturnStep(p)
           /\ resp'[p].kind = "error"
           /\ resp'[p].body.errorType = "ValidationError") =>
              /\ StartStep(p)
              /\ movies' = movies
              /\ interests' = interests]_vars

\* an updateStatus of a stored movie has been rejected for its status
C17_Witness ==
    \E p \in Procs :
        /\ IsDone(p, "updateStatus", 400)
        /\ resp[p].body.errorType = "ValidationError"
        /\ event[p].body.kind = "object"
        /\ event[p].body.status = [t |-> "string", s |-> "watched"]
        /\ \E m \in movies : m.movieId = event[p].movieId /\ m.status # "watched"

\* C18  Status domain: the status of every stored Movie is wishlist or
\* downloaded; the Movie createMovie stores has status wishlist; and an
\* updateStatus whose status is not one of the two strings is answered 400
\* ValidationError in its first step, before any write.
C18_StatusDomain ==
    /\ [](\A m \in movies : m.status \in {"wishlist", "downloaded"})
    /\ [][\A p \in Procs :
            /\ (pc[p] = "cre_put_movie" /\ pc'[p] = "cre_put_interest") =>
                  \E m \in movies' : /\ m.movieId = local[p].movie_item.movieId
                                      /\ m.status = "wishlist"
            /\ (/\ StartStep(p)
                /\ event'[p].op = "updateStatus"
                /\ event'[p].movieId # Missing
                /\ event'[p].body.kind = "object"
                /\ event'[p].body.status \notin {[t |-> "string", s |-> "wishlist"],
                                                  [t |-> "string", s |-> "downloaded"]}) =>
                  /\ pc'[p] = "done"
                  /\ resp'[p].statusCode = 400
                  /\ resp'[p].body.errorType = "ValidationError"
                  /\ movies' = movies]_vars

\* a movie in status downloaded is stored and an updateStatus to another
\* string has been rejected
C18_Witness ==
    /\ \E m \in movies : m.status = "downloaded"
    /\ \E p \in Procs :
          /\ IsDone(p, "updateStatus", 400)
          /\ event[p].body.kind = "object"
          /\ event[p].body.status = [t |-> "string", s |-> "watched"]
          /\ resp[p].body.errorType = "ValidationError"

\* C19  No forbidden status transition: unless the store fails, an
\* updateStatus of a stored movie to the status it does not have answers 200
\* and stores that status, whichever the stored status is; and the
\* updateStatus that follows it and asks for the initial status again
\* answers 200 and stores the initial status.
C19_TransitionsBothWays ==
    [][\A p \in Procs : (UpdateStep(p) /\ fault'[p] # "fault") =>
          LET requested == event[p].body.status.s
              a == local[p].prev
              r == resp'[p].body
          IN /\ \A m \in movies :
                   (m.movieId = event[p].movieId /\ m.status # requested) =>
                       /\ resp'[p].statusCode = 200
                       /\ r.status = requested
                       /\ r \in movies'
             /\ (/\ a # NoItem
                 /\ a.before.status # a.after.status
                 /\ requested = a.before.status) =>
                       /\ resp'[p].statusCode = 200
                       /\ r.status = a.before.status
                       /\ r \in movies']_vars

\* a movie in status downloaded has been set to wishlist and then to
\* downloaded again
C19_Witness ==
    \E p \in Procs :
        /\ IsDone(p, "updateStatus", 200)
        /\ local[p].prev # NoItem
        /\ local[p].prev.before.status = "downloaded"
        /\ local[p].prev.after.status = "wishlist"
        /\ local[p].before.status = "wishlist"
        /\ resp[p].body.status = "downloaded"
        /\ resp[p].body \in movies

\* C20  addInterest over a stored pair is a no-op overwrite: when addInterest
\* writes a pair (userId, movieId) that is stored already, the Interests
\* table, the createdAt of the pair included, is the same after the call as
\* before it.
C20_AddInterestNoOpOverwrite ==
    [][\A p \in Procs :
          (/\ pc[p] = "add_put" /\ pc'[p] = "done" /\ fault'[p] = "ok"
           /\ \E i \in interests : KeyOf(i) = <<event[p].userId, event[p].movieId>>) =>
              interests' = interests]_vars

\* the step is a step of invocation p
OwnStep(p) ==
    \/ StartStep(p)
    \/ pc[p] \notin {"idle", "done"} /\ (pc'[p] # pc[p] \/ local'[p] # local[p])

\* C21  Frame of deleteMovie: no step of a deleteMovie(m), successful or
\* not, changes a Movie other than m or an Interest that references a movie
\* other than m.
C21_DeleteMovieFrame ==
    [][\A p \in Procs : (OwnStep(p) /\ event'[p].op = "deleteMovie") =>
          LET m == event'[p].movieId IN
          /\ {x \in movies' : x.movieId # m} = {x \in movies : x.movieId # m}
          /\ {i \in interests' : i.movieId # m} = {i \in interests : i.movieId # m}]_vars

\* a deleteMovie that found interests has committed while another movie and
\* an Interest in it are stored
C21_Witness ==
    \E p \in Procs :
        /\ IsDone(p, "deleteMovie", 204)
        /\ local[p].interests # {}
        /\ ~Stored(event[p].movieId)
        /\ \E x \in movies : x.movieId # event[p].movieId
        /\ \E i \in interests :
              /\ i.movieId # event[p].movieId
              /\ i.userId \in {f.userId : f \in local[p].interests}

\* C22  Frame of addInterest and removeInterest: no step of an
\* addInterest(m, u) or removeInterest(m, u) changes a Movie or an Interest
\* other than the one keyed (u, m).
C22_InterestFrame ==
    [][\A p \in Procs :
          (OwnStep(p) /\ event'[p].op \in {"addInterest", "removeInterest"}) =>
              LET k == <<event'[p].userId, event'[p].movieId>> IN
              /\ movies' = movies
              /\ {i \in interests' : KeyOf(i) # k} = {i \in interests : KeyOf(i) # k}]_vars

\* a removeInterest has removed a stored Interest while another user's
\* Interest in the same movie is stored
C22_Witness ==
    \E p \in Procs :
        /\ IsDone(p, "removeInterest", 204)
        /\ local[p].existed
        /\ \E i \in interests :
              i.movieId = event[p].movieId /\ i.userId # event[p].userId

\* C23  Database failures preserve state: with invocations one at a time,
\* the steps of an addInterest, removeInterest, updateStatus or deleteMovie
\* that come before its return write nothing, and the step in which it
\* returns because a store call failed writes nothing and answers an error;
\* so both tables are then as they were when the operation began.
C23_FailurePreservesState ==
    [][\A p \in Procs :
          (/\ OwnStep(p)
           /\ event'[p].op \in {"addInterest", "removeInterest",
                                 "updateStatus", "deleteMovie"}) =>
              /\ pc'[p] # "done" => (movies' = movies /\ interests' = interests)
              /\ fault'[p] = "fault" =>
                    /\ pc'[p] = "done"
                    /\ resp'[p].kind = "error"
                    /\ resp'[p].statusCode >= 500
                    /\ movies' = movies
                    /\ interests' = interests]_vars

\* a deleteMovie of a stored movie has answered an error because its
\* transaction failed, and the movie and the interests it had found are
\* still stored
C23_Witness ==
    \E p \in Procs :
        /\ pc[p] = "done" /\ event[p].op = "deleteMovie" /\ fault[p] = "fault"
        /\ resp[p].kind = "error"
        /\ local[p].interests # {}
        /\ local[p].interests \subseteq interests
        /\ Stored(event[p].movieId)

\* the users with a stored interest in movie m
InterestedUsers(m) == {i.userId : i \in query_movie_interests(interests, m)}

\* invocation p returns from listInterestedUsers(m), m given, in this step
ListUsersStep(p) ==
    /\ ReturnStep(p)
    /\ event'[p].op = "listInterestedUsers"
    /\ event'[p].movieId # Missing

UserOf(name) ==
    IF \E u \in Users : Username(u) = name
    THEN CHOOSE u \in Users : Username(u) = name
    ELSE name

\* invocation p returns from listMoviesEnriched with status 200 in this step
ListMoviesStep(p) ==
    /\ ReturnStep(p)
    /\ event'[p].op = "listMovies"
    /\ resp'[p].statusCode = 200

\* C25  listMoviesEnriched, with no other invocation in flight, answers one
\* entry for each stored movie and no other entry, and the interestedUsers
\* of each entry are exactly the users with a stored Interest in its movie.
C25_ListMoviesExact ==
    [][\A p \in Procs : ListMoviesStep(p) =>
          LET body == resp'[p].body.items IN
          /\ Len(body) = Cardinality(movies)
          /\ {body[i].movieId : i \in 1..Len(body)} = {x.movieId : x \in movies}
          /\ \A i \in 1..Len(body) :
                LET listed == body[i].interestedUsers IN
                /\ Len(listed) = Cardinality(InterestedUsers(body[i].movieId))
                /\ {UserOf(listed[j]) : j \in 1..Len(listed)}
                       = InterestedUsers(body[i].movieId)]_vars

\* C26  The sequence answered by listMoviesEnriched is sorted by createdAt,
\* newest first: of two adjacent entries the first has a createdAt greater
\* than or equal to that of the second.
C26_ListMoviesNewestFirst ==
    [][\A p \in Procs : ListMoviesStep(p) =>
          LET body == resp'[p].body.items IN
          \A i \in 1..(Len(body) - 1) : body[i].createdAt >= body[i + 1].createdAt]_vars

\* a listing has answered two movies of different createdAt, the newer
\* first, which the scan had returned the older first
C26_Witness ==
    \E p \in Procs :
        /\ IsDone(p, "listMovies", 200)
        /\ Len(resp[p].body.items) = 2
        /\ resp[p].body.items[1].createdAt > resp[p].body.items[2].createdAt
        /\ local[p].enriched[1].createdAt < local[p].enriched[2].createdAt

\* invocation p returns from a listing in this step, a lookup in the
\* identity directory has raised during it, and its last store call has not
LookupFailedStep(p, op) ==
    /\ ReturnStep(p)
    /\ event'[p].op = op
    /\ local'[p].lookup_failed
    /\ fault'[p] # "fault"

\* C27  A lookup in the identity directory that fails never fails a listing:
\* listMoviesEnriched answers 200 with every user given by Username or, when
\* unresolved, by the raw user id; listInterestedUsers answers 200 with one
\* entry for each stored Interest, the unresolved users with null username
\* and email.
C27_LookupFailureDegradesGracefully ==
    [][\A p \in Procs :
          /\ LookupFailedStep(p, "listMovies") =>
                /\ resp'[p].statusCode = 200
                /\ \A i \in 1..Len(resp'[p].body.items) :
                      LET e == resp'[p].body.items[i]
                          m == CHOOSE x \in movies : x.movieId = e.movieId
                      IN /\ e.createdBy \in {Username(m.createdBy), m.createdBy}
                         /\ \A j \in 1..Len(e.interestedUsers) :
                               UserOf(e.interestedUsers[j]) \in InterestedUsers(e.movieId)
          /\ LookupFailedStep(p, "listInterestedUsers") =>
                /\ resp'[p].statusCode = 200
                /\ Len(resp'[p].body.items)
                      = Cardinality(query_movie_interests(interests, event'[p].movieId))
                /\ \E i \in 1..Len(resp'[p].body.items) :
                      /\ resp'[p].body.items[i].username = None
                      /\ resp'[p].body.items[i].email = None]_vars

\* C28  Store failures are surfaced: in every operation, the listings
\* included, the step in which a store call raises is the last step of the
\* invocation (the call is not made again, the handler does not go on), and
\* the invocation answers an error.
C28_StoreFailuresSurfaced ==
    [][\A p \in Procs : (OwnStep(p) /\ fault'[p] = "fault") =>
          /\ pc'[p] = "done"
          /\ resp'[p].kind = "error"
          /\ resp'[p].statusCode >= 400]_vars

\* the messages of the handlers, each with its error kind
ErrorBodies ==
    {[error |-> b[1], errorType |-> b[2]] : b \in
        {<<"Invalid JSON in request body", "ValidationError">>,
         <<"Title is required", "ValidationError">>,
         <<"Title must be a string", "ValidationError">>,
         <<"Title cannot be empty or whitespace only", "ValidationError">>,
         <<"Title cannot exceed 500 characters", "ValidationError">>,
         <<"Status is required", "ValidationError">>,
         <<"Status must be a string", "ValidationError">>,
         <<"Status must be one of: wishlist, downloaded", "ValidationError">>,
         <<"Missing movieId in path", "ValidationError">>,
         <<"Unauthorized - missing user context", "AuthError">>,
         <<"Movie not found", "NotFoundError">>,
         <<"Transaction failed", "TransactionError">>,
         <<"Resource conflict or condition not met", "DatabaseError">>,
         <<"Resource not found", "DatabaseError">>,
         <<"Service temporarily unavailable, please retry", "DatabaseError">>,
         <<"Invalid request parameters", "DatabaseError">>,
         <<"Transaction failed, please retry", "DatabaseError">>,
         <<"Internal server error", "DatabaseError">>,
         <<"Internal server error", "ServerError">>}}

\* every exception a store call raises in the model
Raisable == Faults \cup TransactionFaults \cup ConditionFailures

\* C29  No internal error detail crosses the boundary: the body of every
\* error response is one of the constant messages with its error kind, and
\* two failures of a store call that differ only in their backend detail
\* are answered with the same response by every except clause.
C29_NoInternalDetail ==
    /\ \A p \in Procs : resp[p].kind = "error" => resp[p].body \in ErrorBodies
    /\ \A e \in Raisable : \A d \in Details :
          /\ store_error_response(WithDetail(e, d)) = store_error_response(e)
          /\ update_error_response(WithDetail(e, d)) = update_error_response(e)
          /\ delete_error_response(WithDetail(e, d)) = delete_error_response(e)

\* a handler has answered 500 ServerError after a store call raised an
\* exception that is not a ClientError
C29_Witness ==
    \E p \in Procs :
        /\ pc[p] = "done" /\ fault[p] = "fault"
        /\ resp[p] = ServerError
        /\ event[p].op = "listMovies"

\* the step is the start of a createMovie with a valid title, of an
\* addInterest or of a removeInterest of a given movie, and the event
\* carries no caller identity
AnonymousStep(p) ==
    /\ StartStep(p)
    /\ event'[p].userId = Missing
    /\ \/ /\ event'[p].op = "createMovie"
          /\ event'[p].body.kind = "object"
          /\ validate_movie_title(event'[p].body.title)[1]
       \/ /\ event'[p].op \in {"addInterest", "removeInterest"}
          /\ event'[p].movieId # Missing

\* C30  Missing caller identity: createMovie with a valid title, addInterest
\* and removeInterest without a caller identity are answered 401 AuthError
\* before any store call: the handler returns in its first step, no store
\* call has an outcome, and both tables are unchanged.
C30_MissingIdentity ==
    [][\A p \in Procs : AnonymousStep(p) =>
          /\ resp'[p] = error_response(401, "Unauthorized - missing user context",
                                       "AuthError")
          /\ pc'[p] = "done"
          /\ fault'[p] = "none"
          /\ local'[p] = NoLocal
          /\ movies' = movies
          /\ interests' = interests]_vars

\* an addInterest without identity for a stored movie has been answered 401
C30_Witness ==
    \E p \in Procs :
        /\ IsDone(p, "addInterest", 401)
        /\ event[p].userId = Missing
        /\ fault[p] = "none"
        /\ Stored(event[p].movieId)

\* invocation p is a createMovie that has generated its movieId
Creating(p) == event[p].op = "createMovie" /\ local[p].movie_item # NoItem

\* C31  Movie identity uniqueness: a createMovie generates a movieId that no
\* createMovie generated before it, keeps it to its end and returns it with
\* 201, so successful calls return pairwise distinct movieIds; its put adds
\* its movie and changes or removes no other, and a stored movieId stays
\* stored through every step that is not the transaction of a deleteMovie
\* of that movie.
C31_MovieIdUnique ==
    /\ [](\A p, q \in Procs :
            (p # q /\ Creating(p) /\ Creating(q)) =>
                local[p].movie_item.movieId # local[q].movie_item.movieId)
    /\ [][/\ usedIds \subseteq usedIds'
          /\ \A p \in Procs :
                /\ (CreateStep(p) /\ pc'[p] = "cre_put_movie") =>
                      /\ local'[p].movie_item.movieId \notin usedIds
                      /\ local'[p].movie_item.movieId \in usedIds'
                /\ (pc[p] \in {"cre_put_movie", "cre_put_interest"} /\ OwnStep(p)) =>
                      /\ local'[p].movie_item = local[p].movie_item
                      /\ resp'[p].statusCode = 201 =>
                            resp'[p].body.movieId = local[p].movie_item.movieId
                /\ (pc[p] = "cre_put_movie" /\ OwnStep(p)) =>
                      /\ ~Stored(local[p].movie_item.movieId)
                      /\ movies \subseteq movies'
                      /\ movies' \subseteq movies \cup {local[p].movie_item}
          /\ \A m \in MovieKeys(movies) \ MovieKeys(movies') :
                \E p \in Procs : TransactStep(p) /\ event[p].movieId = m]_vars

\* a createMovie has returned 201 with a movieId while a movie created
\* before it is stored under another movieId
C31_Witness ==
    \E p \in Procs :
        /\ IsDone(p, "createMovie", 201)
        /\ Stored(resp[p].body.movieId)
        /\ \E x \in movies : x.movieId # resp[p].body.movieId

\* C32  Movie field immutability: through every step a stored movie keeps
\* its movieId, title, createdBy and createdAt; its record changes only in
\* the update_item of a successful updateStatus of that movie, and then only
\* in status and updatedAt; and it leaves the table only in the committed
\* transaction of a deleteMovie of that movie.
C32_MovieFieldsImmutable ==
    [][/\ \A x \in movies : \A y \in movies' :
             x.movieId = y.movieId =>
                 /\ y.title = x.title
                 /\ y.createdBy = x.createdBy
                 /\ y.createdAt = x.createdAt
                 /\ y # x =>
                       \E p \in Procs :
                           /\ UpdateStep(p)
                           /\ event[p].movieId = x.movieId
                           /\ resp'[p].statusCode = 200
       /\ \A x \in movies :
             ~StoredAfter(x.movieId) =>
                 \E p \in Procs :
                     /\ TransactStep(p)
                     /\ event[p].movieId = x.movieId
                     /\ resp'[p].statusCode = 204]_vars

\* an updateStatus has changed the status of a movie and refreshed its
\* updatedAt, and the movie has the title, creator and createdAt it had
C32_Witness ==
    \E p \in Procs :
        /\ IsDone(p, "updateStatus", 200)
        /\ local[p].before # NoItem
        /\ \E x \in movies :
              /\ x.movieId = event[p].movieId
              /\ x.status # local[p].before.status
              /\ x.updatedAt > local[p].before.updatedAt
              /\ x.title = local[p].before.title
              /\ x.createdBy = local[p].before.createdBy
              /\ x.createdAt = local[p].before.createdAt

\* the interests of p's movie that are stored now and were not among those
\* p's query returned
LateInterests(p) ==
    {i \in query_movie_interests(interests, event[p].movieId) :
        KeyOf(i) \notin Keys(local[p].interests)}

\* C33  Accepted delete race: when an Interest of m has been written between
\* the index query of deleteMovie(m) and its transaction, the transaction,
\* unless the store fails it, still commits: it answers 204, the movie and
\* the queried interests are gone, and the late Interest stays stored,
\* referencing a movie that is no longer stored.
C33_LateInterestSurvivesDelete ==
    [][\A p \in Procs :
          (/\ TransactStep(p)
           /\ Stored(event[p].movieId)
           /\ LateInterests(p) # {}
           /\ fault'[p] # "fault") =>
              /\ resp'[p].statusCode = 204
              /\ ~StoredAfter(event[p].movieId)
              /\ \A i \in interests' : KeyOf(i) \notin Keys(local[p].interests)
              /\ LateInterests(p) \subseteq interests']_vars

\* a deleteMovie whose query had found an interest has committed, and an
\* interest of its movie that the query had not found is still stored
C33_Witness ==
    \E p \in Procs :
        /\ IsDone(p, "deleteMovie", 204)
        /\ local[p].interests # {}
        /\ ~Stored(event[p].movieId)
        /\ LateInterests(p) # {}

TransactionError == error_response(500, "Transaction failed", "TransactionError")

\* C34  deleteMovie failure classification, as claimed: the transaction is
\* answered NotFoundError exactly when it failed on the movie-exists
\* condition, and every other failure of the transaction is answered
\* TransactionError.
C34_OtherFailuresAreTransactionError ==
    [][\A p \in Procs : TransactStep(p) =>
          /\ fault'[p] = "condition" <=> resp'[p] = NotFound
          /\ fault'[p] = "fault" => resp'[p] = TransactionError]_vars

\* C34  deleteMovie failure classification, amended: the transaction is
\* answered NotFoundError exactly when it failed on the movie-exists
\* condition; a cancellation for any other reason is answered
\* TransactionError, a failure that is not a cancellation is answered
\* DatabaseError with the message of its error code when it is a
\* ClientError, and 500 ServerError otherwise.
C34_FailureClassification ==
    [][\A p \in Procs : TransactStep(p) =>
          /\ fault'[p] = "condition" <=> resp'[p] = NotFound
          /\ fault'[p] = "fault" =>
                resp'[p] \in
                    {error_response(500, "Transaction failed", "TransactionError"),
                     error_response(503, "Service temporarily unavailable, please retry",
                                    "DatabaseError"),
                     error_response(500, "Internal server error", "ServerError")}
          /\ \A e \in TransactionFaults :
                delete_error_response(e) =
                    IF e.kind # "ClientError" THEN ServerError
                    ELSE IF e.code = "TransactionCanceledException" THEN TransactionError
                    ELSE DatabaseError(e.code)
          /\ \A e \in ConditionFailures : delete_error_response(e) = NotFound]_vars

\* the transaction of a deleteMovie of a stored movie has failed without
\* being cancelled, and the answer is 503 DatabaseError
C34_Witness ==
    \E p \in Procs :
        /\ IsDone(p, "deleteMovie", 503)
        /\ fault[p] = "fault"
        /\ local[p].interests # {}
        /\ resp[p].body.errorType = "DatabaseError"
        /\ Stored(event[p].movieId)

\* C35  At most one deleter wins: a deleteMovie(m) commits (204) only while
\* m is stored and no deleteMovie(m) has committed before; once one has
\* committed, every step of another deleteMovie(m), concurrent or later,
\* leaves both tables unchanged, and its transaction is answered with
\* NotFoundError or with a transaction or store error.
C35_AtMostOneDeleterWins ==
    [][\A p \in Procs :
          /\ TransactStep(p) =>
                LET m == event[p].movieId IN
                /\ resp'[p].statusCode = 204 =>
                      /\ Stored(m)
                      /\ m \notin deleted
                      /\ m \in deleted'
                /\ m \in deleted =>
                      /\ resp'[p].kind = "error"
                      /\ resp'[p].body.errorType \in
                            {"NotFoundError", "TransactionError", "DatabaseError",
                             "ServerError"}
          /\ (OwnStep(p) /\ event'[p].op = "deleteMovie"
                /\ event'[p].movieId \in deleted) =>
                    /\ movies' = movies
                    /\ interests' = interests]_vars

\* of two concurrent deleteMovie of a movie that had an interest, both of
\* which had found the interest, one has committed and the other has then
\* been answered 404
C35_Witness ==
    \E p \in Procs :
        /\ IsDone(p, "deleteMovie", 404)
        /\ fault[p] = "condition"
        /\ local[p].interests # {}
        /\ event[p].movieId \in deleted

\* C36  updateStatus never resurrects a movie: no movie is stored under a
\* movieId whose deleteMovie has committed, under any interleaving; and the
\* update_item of an updateStatus(m) that comes after the deletion of m
\* leaves the Movies table unchanged and, unless the store fails it, is
\* answered 404 NotFoundError.
C36_NoResurrection ==
    /\ [](\A m \in deleted : ~Stored(m))
    /\ [][\A p \in Procs :
            (UpdateStep(p) /\ event[p].movieId \in deleted) =>
                /\ movies' = movies
                /\ fault'[p] # "fault" => resp'[p] = NotFound]_vars

\* of the three invocations so far (a createMovie, an updateStatus and a
\* deleteMovie of the movie), the updateStatus started while another was in
\* flight, so before the deletion committed, and has been answered 404
C36_Witness ==
    /\ calls = 3
    /\ IsDone(2, "updateStatus", 404)
    /\ fault[2] = "condition"
    /\ event[2].movieId \in deleted
    /\ ~Stored(event[2].movieId)

\* C37  createMovie answers 201 only after both writes succeeded: the put of
\* the movie either raises, and the handler returns an error at once, or
\* stores the movie and leads to the put of the interest; that put either
\* raises, and the handler returns an error although the movie is stored,
\* or stores the creator's interest, and only then is 201 answered.
C37_CreatedOnlyAfterBothWrites ==
    [][\A p \in Procs :
          /\ (pc[p] = "cre_put_movie" /\ OwnStep(p)) =>
                IF fault'[p] = "fault"
                THEN /\ pc'[p] = "done"
                     /\ resp'[p].kind = "error"
                     /\ movies' = movies
                ELSE /\ pc'[p] = "cre_put_interest"
                     /\ resp'[p] = NoResp
                     /\ local[p].movie_item \in movies'
          /\ (pc[p] = "cre_put_interest" /\ OwnStep(p)) =>
                /\ pc'[p] = "done"
                /\ IF fault'[p] = "fault"
                   THEN /\ resp'[p].kind = "error"
                        /\ interests' = interests
                   ELSE /\ resp'[p] = success_response(201, local[p].movie_item)
                        /\ \E i \in interests' :
                              KeyOf(i) = <<event[p].userId, local[p].movie_item.movieId>>
          /\ (ReturnStep(p) /\ event'[p].op = "createMovie"
                /\ resp'[p].statusCode = 201) =>
                    /\ pc[p] = "cre_put_interest"
                    /\ fault'[p] = "ok"]_vars

\* a createMovie has been answered 503 DatabaseError after the put of its
\* interest failed, while its movie is stored
C37_Witness ==
    \E p \in Procs :
        /\ IsDone(p, "createMovie", 503)
        /\ fault[p] = "fault"
        /\ resp[p].body.errorType = "DatabaseError"
        /\ local[p].movie_item \in movies

InFlight(p) == pc[p] \notin {"idle", "done"}

\* C38  Every invocation terminates with exactly one response: an
\* invocation in flight has no response yet and its next step never waits
\* for another invocation; every invocation in flight returns; and a
\* returned invocation has a success or an error response, whatever the
\* event and whatever the store or the identity directory raised.
C38_EveryInvocationResponds ==
    /\ [](\A p \in Procs :
            /\ InFlight(p) => (resp[p] = NoResp /\ ENABLED Proceed(p))
            /\ pc[p] = "done" => resp[p].kind \in {"json", "empty", "error"})
    /\ \A p \in Procs : InFlight(p) ~> (pc[p] = "done")

\* a listInterestedUsers in which a lookup raised an exception that the
\* loop does not catch has returned a response, 500 ServerError
C38_Witness ==
    \E p \in Procs :
        /\ IsDone(p, "listInterestedUsers", 500)
        /\ local[p].lookup_failed
        /\ fault[p] = "ok"
        /\ resp[p] = ServerError

=============================================================================
